---- MODULE Spec2Model ----
(***************************************************************************)
(* A model of src/app.py: the Streamlit "Individual College Scraper".      *)
(*                                                                         *)
(* Text is modelled as sequences of one-character strings, so that         *)
(* lower(), strip(), rstrip('/') and the regular expressions of the source *)
(* act on characters as they do in Python.  Time is counted in half        *)
(* seconds (the step of the delay slider), so 2.0 s is 4.                  *)
(***************************************************************************)
EXTENDS Integers, Sequences, FiniteSets, TLC

VARIABLES
    college_url,     \* value of the "College Main Page URL" text input
    sub_urls,        \* session_state.courses_url/admission_url/placement_url, when there
    delay_seconds,   \* value of the "Delay between requests" slider
    scraping,        \* session_state.scraping: None or a mode
    college_data,    \* session_state.college_data: a map section -> value
    pc,              \* where the script run stands
    cur,             \* the section whose scrape is in progress
    progress,        \* value shown by the progress bar, in tenths
    sinceLast,       \* time since the last HTTP GET was issued (-1: none yet)
    run,             \* what the current/last scrape run requested and did
    lastFetch,       \* what the last make_request call did
    doc,             \* extraction under test: the courses document
    out              \* extraction under test: what the last operation returned

vars == <<college_url, sub_urls, delay_seconds, scraping, college_data, pc, cur,
          progress, sinceLast, run, lastFetch, doc, out>>

None == "None"

Sections == <<"overview", "courses", "admissions", "placements">>
SectionNames == {Sections[i] : i \in 1..Len(Sections)}
Modes == SectionNames \cup {"all"}

(***************************************************************************)
(* Characters and strings                                                  *)
(***************************************************************************)
UpperCase == <<"A", "B", "C", "D", "E", "F", "G", "H", "I", "J", "K", "L", "M", "N", "O", "P", "Q", "R", "S", "T", "U", "V", "W", "X", "Y", "Z">>
LowerCase == <<"a", "b", "c", "d", "e", "f", "g", "h", "i", "j", "k", "l", "m", "n", "o", "p", "q", "r", "s", "t", "u", "v", "w", "x", "y", "z">>
Digits == {"0", "1", "2", "3", "4", "5", "6", "7", "8", "9"}
Whitespace == {" ", "\n", "\t"}

\* str.lower() on one character
lowerChar(c) ==
    IF \E i \in 1..Len(UpperCase) : UpperCase[i] = c
    THEN LowerCase[CHOOSE i \in 1..Len(UpperCase) : UpperCase[i] = c]
    ELSE c

\* str.lower()
lower(s) == [i \in 1..Len(s) |-> lowerChar(s[i])]

RECURSIVE rstrip(_, _)
\* str.rstrip(chars): drop every trailing character that is in chars
rstrip(s, chars) ==
    IF s # <<>> /\ s[Len(s)] \in chars THEN rstrip(SubSeq(s, 1, Len(s) - 1), chars)
    ELSE s

RECURSIVE lstrip(_, _)
lstrip(s, chars) ==
    IF s # <<>> /\ s[1] \in chars THEN lstrip(Tail(s), chars) ELSE s

\* str.strip(): drop leading and trailing whitespace
strip(s) == lstrip(rstrip(s, Whitespace), Whitespace)

\* sub in s
Contains(s, sub) ==
    \E i \in 1..(Len(s) - Len(sub) + 1) : SubSeq(s, i, i + Len(sub) - 1) = sub

RECURSIVE join(_, _)
\* sep.join(parts)
join(sep, parts) ==
    IF parts = <<>> THEN <<>>
    ELSE IF Len(parts) = 1 THEN parts[1]
    ELSE parts[1] \o sep \o join(sep, Tail(parts))

(***************************************************************************)
(* Regular expressions (Python's re, backtracking, re.IGNORECASE).         *)
(* A pattern is a tree of nodes; M returns, in the order Python tries      *)
(* them, the states in which a match of the node can end.                  *)
(***************************************************************************)
Ch(S) == [k |-> "set", chars |-> S, neg |-> FALSE]
NotCh(S) == [k |-> "set", chars |-> S, neg |-> TRUE]
Cat(items) == [k |-> "seq", items |-> items]
Alt(items) == [k |-> "alt", items |-> items]
Rep(n, lo, hi) == [k |-> "rep", node |-> n, lo |-> lo, hi |-> hi]   \* hi < 0: unbounded
Opt(n) == Rep(n, 0, 1)
Star(n) == Rep(n, 0, -1)
Plus(n) == Rep(n, 1, -1)
Grp(n) == [k |-> "grp", node |-> n]
Lit(str) == Cat([i \in 1..Len(str) |-> Ch({str[i]})])

\* whether character c matches a class, ignoring case
CharMatches(c, n) ==
    (\E x \in n.chars : lowerChar(x) = lowerChar(c)) # n.neg

Progressed(rs, pos) == SelectSeq(rs, LAMBDA r : r.pos > pos)
SetGroup(rs, start) == [i \in 1..Len(rs) |-> [rs[i] EXCEPT !.gs = start, !.ge = rs[i].pos]]

RECURSIVE M(_, _, _), MSeq(_, _, _, _), MSeqAll(_, _, _, _), MAlt(_, _, _, _),
          MRep(_, _, _, _), MRepAll(_, _, _, _)
M(n, s, st) ==
    CASE n.k = "set" ->
            IF st.pos <= Len(s) /\ CharMatches(s[st.pos], n)
            THEN <<[st EXCEPT !.pos = @ + 1]>> ELSE <<>>
      [] n.k = "seq" -> MSeq(n.items, 1, s, st)
      [] n.k = "alt" -> MAlt(n.items, 1, s, st)
      [] n.k = "rep" -> MRep(n, 0, s, st)
      [] n.k = "grp" -> SetGroup(M(n.node, s, st), st.pos)
MSeq(items, idx, s, st) ==
    IF idx > Len(items) THEN <<st>>
    ELSE MSeqAll(items, idx + 1, s, M(items[idx], s, st))
MSeqAll(items, idx, s, rs) ==
    IF rs = <<>> THEN <<>>
    ELSE MSeq(items, idx, s, Head(rs)) \o MSeqAll(items, idx, s, Tail(rs))
MAlt(items, idx, s, st) ==
    IF idx > Len(items) THEN <<>>
    ELSE M(items[idx], s, st) \o MAlt(items, idx + 1, s, st)
\* greedy: try one more repetition first, then stopping here
MRep(n, cnt, s, st) ==
    (IF n.hi < 0 \/ cnt < n.hi
     THEN MRepAll(n, cnt + 1, s, Progressed(M(n.node, s, st), st.pos))
     ELSE <<>>)
    \o (IF cnt >= n.lo THEN <<st>> ELSE <<>>)
MRepAll(n, cnt, s, rs) ==
    IF rs = <<>> THEN <<>>
    ELSE MRep(n, cnt, s, Head(rs)) \o MRepAll(n, cnt, s, Tail(rs))

RECURSIVE HasGroup(_), AnyHasGroup(_, _)
HasGroup(n) ==
    CASE n.k = "set" -> FALSE
      [] n.k = "grp" -> TRUE
      [] n.k = "rep" -> HasGroup(n.node)
      [] OTHER -> AnyHasGroup(n.items, 1)
AnyHasGroup(items, idx) ==
    idx <= Len(items) /\ (HasGroup(items[idx]) \/ AnyHasGroup(items, idx + 1))

NoMatch == [found |-> FALSE]
RECURSIVE SearchFrom(_, _, _)
\* re.search from position i on: the leftmost match, or NoMatch
SearchFrom(re, s, i) ==
    IF i > Len(s) + 1 THEN NoMatch
    ELSE LET rs == M(re, s, [pos |-> i, gs |-> 0, ge |-> 0])
         IN IF rs # <<>>
            THEN [found |-> TRUE, start |-> i, end |-> rs[1].pos,
                  gs |-> rs[1].gs, ge |-> rs[1].ge]
            ELSE SearchFrom(re, s, i + 1)
search(re, s) == SearchFrom(re, s, 1)
group0(s, m) == SubSeq(s, m.start, m.end - 1)
group1(s, m) == SubSeq(s, m.gs, m.ge - 1)

RECURSIVE FindAllFrom(_, _, _)
\* re.findall for a pattern with one group: the group of every non-overlapping match
FindAllFrom(re, s, i) ==
    LET m == SearchFrom(re, s, i)
    IN IF ~m.found THEN <<>>
       ELSE <<group1(s, m)>> \o FindAllFrom(re, s, IF m.end > m.start THEN m.end ELSE m.end + 1)
findall(re, s) == FindAllFrom(re, s, 1)


(***************************************************************************)
(* Field sub-extractors.  A call returns [ok |-> TRUE, val |-> text] or,   *)
(* when the Python raises, [ok |-> FALSE, exc |-> exception class].        *)
(***************************************************************************)
Ret(v) == [ok |-> TRUE, val |-> v]
Raise(e) == [ok |-> FALSE, exc |-> e]
N_A == <<"N", "/", "A">>

D == Ch(Digits)
WS == Ch(Whitespace)
ColonWS == Ch({":"} \cup Whitespace)
NotEnd == NotCh({".", "!", "?"})
End == Ch({".", "!", "?"})
Year == Alt(<<Lit(<<"y", "e", "a", "r">>), Lit(<<"y", "r">>)>>)
Num == Plus(Ch(Digits \cup {","}))
Frac == Opt(Cat(<<Lit(<<".">>), Plus(D)>>))
Unit == Alt(<<Lit(<<"l", "a", "k", "h">>), Lit(<<"c", "r", "o", "r", "e">>), Lit(<<"L">>), Lit(<<"C", "r">>)>>)

duration_patterns == <<
    \* r'(\d+)\s*(?:year|yr)s?'
    [src |-> <<"(", "\\", "d", "+", ")", "\\", "s", "*", "(", "?", ":", "y", "e", "a", "r", "|", "y", "r", ")", "s", "?">>,
     re |-> Cat(<<Grp(Plus(D)), Star(WS), Year, Opt(Lit(<<"s">>))>>)],
    \* r'(\d+)\s*(?:semester|sem)s?'
    [src |-> <<"(", "\\", "d", "+", ")", "\\", "s", "*", "(", "?", ":", "s", "e", "m", "e", "s", "t", "e", "r", "|", "s", "e", "m", ")", "s", "?">>,
     re |-> Cat(<<Grp(Plus(D)), Star(WS), Alt(<<Lit(<<"s", "e", "m", "e", "s", "t", "e", "r">>), Lit(<<"s", "e", "m">>)>>),
                  Opt(Lit(<<"s">>))>>)],
    \* r'duration[:\s]*(\d+\s*(?:year|yr)s?)'
    [src |-> <<"d", "u", "r", "a", "t", "i", "o", "n", "[", ":", "\\", "s", "]", "*", "(", "\\", "d", "+", "\\", "s", "*", "(", "?", ":", "y", "e", "a", "r", "|", "y", "r", ")", "s", "?", ")">>,
     re |-> Cat(<<Lit(<<"d", "u", "r", "a", "t", "i", "o", "n">>), Star(ColonWS),
                  Grp(Cat(<<Plus(D), Star(WS), Year, Opt(Lit(<<"s">>))>>))>>)] >>

RECURSIVE DurationFrom(_, _)
DurationFrom(text, i) ==
    IF i > Len(duration_patterns) THEN Ret(N_A)
    ELSE LET p == duration_patterns[i]
             m == search(p.re, text)
         IN IF m.found
            THEN IF Contains(p.src, <<"y", "e", "a", "r">>)
                 THEN Ret(group1(text, m) \o <<" ", "Y", "e", "a", "r", "s">>)
                 ELSE Ret(group0(text, m))
            ELSE DurationFrom(text, i + 1)
extract_duration(text) == DurationFrom(text, 1)

fees_patterns == <<
    \* r'₹\s*[\d,]+(?:\.\d+)?(?:\s*(?:lakh|crore|L|Cr))?'
    Cat(<<Lit(<<"₹">>), Star(WS), Num, Frac, Opt(Cat(<<Star(WS), Unit>>))>>),
    \* r'Rs\.?\s*[\d,]+(?:\.\d+)?(?:\s*(?:lakh|crore|L|Cr))?'
    Cat(<<Lit(<<"R", "s">>), Opt(Lit(<<".">>)), Star(WS), Num, Frac, Opt(Cat(<<Star(WS), Unit>>))>>),
    \* r'fee[s]?[:\s]*₹\s*[\d,]+'
    Cat(<<Lit(<<"f", "e", "e">>), Opt(Lit(<<"s">>)), Star(ColonWS), Lit(<<"₹">>), Star(WS), Num>>),
    \* r'fee[s]?[:\s]*Rs\.?\s*[\d,]+'
    Cat(<<Lit(<<"f", "e", "e">>), Opt(Lit(<<"s">>)), Star(ColonWS), Lit(<<"R", "s">>), Opt(Lit(<<".">>)),
          Star(WS), Num>>),
    \* r'[\d,]+(?:\.\d+)?\s*(?:lakh|crore|L|Cr)'
    Cat(<<Num, Frac, Star(WS), Unit>>) >>

RECURSIVE FeesFrom(_, _)
FeesFrom(text, i) ==
    IF i > Len(fees_patterns) THEN Ret(N_A)
    ELSE LET m == search(fees_patterns[i], text)
         IN IF m.found THEN Ret(group0(text, m)) ELSE FeesFrom(text, i + 1)
extract_fees(text) == FeesFrom(text, 1)

seats_patterns == <<
    \* r'(\d+)\s*seat[s]?'
    Cat(<<Grp(Plus(D)), Star(WS), Lit(<<"s", "e", "a", "t">>), Opt(Lit(<<"s">>))>>),
    \* r'intake[:\s]*(\d+)'
    Cat(<<Lit(<<"i", "n", "t", "a", "k", "e">>), Star(ColonWS), Grp(Plus(D))>>),
    \* r'capacity[:\s]*(\d+)'
    Cat(<<Lit(<<"c", "a", "p", "a", "c", "i", "t", "y">>), Star(ColonWS), Grp(Plus(D))>>),
    \* r'admission[s]?[:\s]*(\d+)'
    Cat(<<Lit(<<"a", "d", "m", "i", "s", "s", "i", "o", "n">>), Opt(Lit(<<"s">>)), Star(ColonWS), Grp(Plus(D))>>) >>

RECURSIVE SeatsFrom(_, _)
SeatsFrom(text, i) ==
    IF i > Len(seats_patterns) THEN Ret(N_A)
    ELSE LET m == search(seats_patterns[i], text)
         IN IF m.found THEN Ret(group1(text, m)) ELSE SeatsFrom(text, i + 1)
extract_seats(text) == SeatsFrom(text, 1)

eligibility_patterns == <<
    \* r'(?:eligibility|qualification)[:\s]*([^.!?]+[.!?])'
    Cat(<<Alt(<<Lit(<<"e", "l", "i", "g", "i", "b", "i", "l", "i", "t", "y">>), Lit(<<"q", "u", "a", "l", "i", "f", "i", "c", "a", "t", "i", "o", "n">>)>>), Star(ColonWS),
          Grp(Cat(<<Plus(NotEnd), End>>))>>),
    \* r'10\+2[^.!?]*[.!?]'
    Cat(<<Lit(<<"1", "0", "+", "2">>), Star(NotEnd), End>>),
    \* r'graduation[^.!?]*[.!?]'
    Cat(<<Lit(<<"g", "r", "a", "d", "u", "a", "t", "i", "o", "n">>), Star(NotEnd), End>>),
    \* r'bachelor[^.!?]*[.!?]'
    Cat(<<Lit(<<"b", "a", "c", "h", "e", "l", "o", "r">>), Star(NotEnd), End>>) >>

EligibilityLimit == 200

\* match.group(1): IndexError when the pattern has no group
MatchGroup1(re, text, m) ==
    IF HasGroup(re) THEN Ret(group1(text, m)) ELSE Raise("IndexError")

RECURSIVE EligibilityFrom(_, _)
EligibilityFrom(text, i) ==
    IF i > Len(eligibility_patterns) THEN Ret(N_A)
    ELSE LET re == eligibility_patterns[i]
             m == search(re, text)
         IN IF m.found
            THEN LET result == IF Contains(group0(text, m), <<"1", "0", "+", "2">>)
                               THEN Ret(group0(text, m))
                               ELSE MatchGroup1(re, text, m)
                 IN IF result.ok
                    THEN Ret(SubSeq(strip(result.val), 1,
                                    IF Len(strip(result.val)) < EligibilityLimit
                                    THEN Len(strip(result.val)) ELSE EligibilityLimit))
                    ELSE result
            ELSE EligibilityFrom(text, i + 1)
extract_eligibility(text) == EligibilityFrom(text, 1)

(***************************************************************************)
(* Courses extraction.  A document is                                      *)
(*   [tables   |-> sequence of tables, a table a sequence of rows (<tr>),  *)
(*                 a row a sequence of cell texts,                         *)
(*    elements |-> sequence of [classes |-> the selectors the element      *)
(*                 matches, text |-> its text],                            *)
(*    text     |-> the text of the page outside tables and containers].    *)
(***************************************************************************)
Course(name, duration, fees, seats, eligibility, source) ==
    [name |-> name, duration |-> duration, fees |-> fees, seats |-> seats,
     eligibility |-> eligibility, source |-> source]

\* the dict literal with its four extractor calls, evaluated in order
CourseFrom(name, d, f, n, e, source) ==
    IF ~d.ok THEN d
    ELSE IF ~f.ok THEN f
    ELSE IF ~n.ok THEN n
    ELSE IF ~e.ok THEN e
    ELSE Ret(Course(name, d.val, f.val, n.val, e.val, source))
CourseData(name, text, source) ==
    CourseFrom(name, extract_duration(text), extract_fees(text), extract_seats(text),
               extract_eligibility(text), source)

degree_keywords == <<<<"t", "e", "c", "h">>, <<"m", "b", "a">>, <<"m", "c", "a">>, <<"m", "s", "c">>, <<"m", "a">>, <<"b", "a">>, <<"b", "c", "a">>, <<"b", "s", "c">>,
                     <<"d", "i", "p", "l", "o", "m", "a">>>>
HasKeyword(cell_text) ==
    \E i \in 1..Len(degree_keywords) : Contains(lower(cell_text), degree_keywords[i])

NameMin == 5

RECURSIVE KeywordCell(_, _)
\* the first cell holding a degree keyword and longer than 5; <<>> for None
KeywordCell(cell_texts, i) ==
    IF i > Len(cell_texts) THEN <<>>
    ELSE IF HasKeyword(cell_texts[i]) /\ Len(cell_texts[i]) > NameMin THEN cell_texts[i]
    ELSE KeywordCell(cell_texts, i + 1)

\* a row named by a keyword cell only
RowNameKeywordOnly(cell_texts) == KeywordCell(cell_texts, 1)
\* the course name of a row: a keyword cell, else the first cell if longer than 5
RowName(cell_texts) ==
    LET byKeyword == KeywordCell(cell_texts, 1)
    IN IF byKeyword # <<>> THEN byKeyword
       ELSE IF cell_texts[1] # <<>> /\ Len(cell_texts[1]) > NameMin THEN cell_texts[1]
       ELSE <<>>

RECURSIVE TableRows(_, _, _, _)
RECURSIVE TableRow(_, _, _, _, _)
\* the loop over the data rows
TableRows(rows, i, table_name, courses) ==
    IF i > Len(rows) THEN courses
    ELSE IF Len(rows[i]) < 2 THEN TableRows(rows, i + 1, table_name, courses)
    ELSE LET cell_texts == [j \in 1..Len(rows[i]) |-> strip(rows[i][j])]
             course_name == RowName(cell_texts)
         IN IF course_name = <<>> THEN TableRows(rows, i + 1, table_name, courses)
            ELSE TableRow(rows, i, table_name, courses,
                          CourseData(course_name, join(<<" ">>, cell_texts), table_name))
\* an exception that loses the courses of the earlier rows
TableRowLosingEarlier(rows, i, table_name, courses, course_data) ==
    IF course_data.ok THEN TableRows(rows, i + 1, table_name, Append(courses, course_data.val))
    ELSE <<>>
\* courses.append(course_data); an exception ends the loop with the courses so far
TableRow(rows, i, table_name, courses, course_data) ==
    IF course_data.ok THEN TableRows(rows, i + 1, table_name, Append(courses, course_data.val))
    ELSE courses

extract_courses_from_table(table, table_name) ==
    TableRows(IF table = <<>> THEN <<>> ELSE Tail(table), 1, table_name, <<>>)

NotSep == NotCh({",", "\n"})
BTech == Cat(<<Lit(<<"B">>), Opt(Lit(<<".">>)), Lit(<<"T", "e", "c", "h">>), Opt(Lit(<<".">>))>>)
MTech == Cat(<<Lit(<<"M">>), Opt(Lit(<<".">>)), Lit(<<"T", "e", "c", "h">>), Opt(Lit(<<".">>))>>)
MSc == Cat(<<Lit(<<"M">>), Opt(Lit(<<".">>)), Lit(<<"S", "c">>), Opt(Lit(<<".">>))>>)
BSc == Cat(<<Lit(<<"B">>), Opt(Lit(<<".">>)), Lit(<<"S", "c">>), Opt(Lit(<<".">>))>>)

course_patterns == <<
    Grp(Cat(<<BTech, Plus(WS), Plus(NotSep)>>)),          \* r'(B\.?Tech\.?\s+[^,\n]+)'
    Grp(Cat(<<MTech, Plus(WS), Plus(NotSep)>>)),          \* r'(M\.?Tech\.?\s+[^,\n]+)'
    Grp(Cat(<<Lit(<<"M", "B", "A">>), Star(WS), Star(NotSep)>>)),    \* r'(MBA\s*[^,\n]*)'
    Grp(Cat(<<Lit(<<"B", "C", "A">>), Plus(WS), Plus(NotSep)>>)),    \* r'(BCA\s+[^,\n]+)'
    Grp(Cat(<<Lit(<<"M", "C", "A">>), Plus(WS), Plus(NotSep)>>)),    \* r'(MCA\s+[^,\n]+)'
    Grp(Cat(<<MSc, Plus(WS), Plus(NotSep)>>)),            \* r'(M\.?Sc\.?\s+[^,\n]+)'
    Grp(Cat(<<BSc, Plus(WS), Plus(NotSep)>>)),            \* r'(B\.?Sc\.?\s+[^,\n]+)'
    \* r'(Bachelor\s+of\s+[^,\n]+)'
    Grp(Cat(<<Lit(<<"B", "a", "c", "h", "e", "l", "o", "r">>), Plus(WS), Lit(<<"o", "f">>), Plus(WS), Plus(NotSep)>>)),
    \* r'(Master\s+of\s+[^,\n]+)'
    Grp(Cat(<<Lit(<<"M", "a", "s", "t", "e", "r">>), Plus(WS), Lit(<<"o", "f">>), Plus(WS), Plus(NotSep)>>)),
    \* r'(Diploma\s+in\s+[^,\n]+)'
    Grp(Cat(<<Lit(<<"D", "i", "p", "l", "o", "m", "a">>), Plus(WS), Lit(<<"i", "n">>), Plus(WS), Plus(NotSep)>>)),
    \* r'(Certificate\s+in\s+[^,\n]+)'
    Grp(Cat(<<Lit(<<"C", "e", "r", "t", "i", "f", "i", "c", "a", "t", "e">>), Plus(WS), Lit(<<"i", "n">>), Plus(WS), Plus(NotSep)>>)) >>

\* the try/except of extract_course_from_element: <<>> for None, else <<course>>
ElementResult(course_data) == IF course_data.ok THEN <<course_data.val>> ELSE <<>>

RECURSIVE ElementFrom(_, _)
RECURSIVE ElementMatch(_, _, _)
\* the loop over course_patterns
ElementFrom(text, i) ==
    IF i > Len(course_patterns) THEN <<>>
    ELSE ElementMatch(text, i, search(course_patterns[i], text))
ElementMatch(text, i, match) ==
    IF match.found /\ Len(strip(group1(text, match))) > NameMin
    THEN ElementResult(CourseData(strip(group1(text, match)), text, "element"))
    ELSE ElementFrom(text, i + 1)
extract_course_from_element(element) == ElementFrom(element.text, 1)

NotSepDot == NotCh({",", "\n", "."})
InOpt == Opt(Cat(<<Lit(<<"i", "n">>), Plus(WS)>>))

text_patterns == <<
    \* (r'B\.?Tech\.?\s+(?:in\s+)?([^,\n\.]{5,50})', 'B.Tech')
    [re |-> Cat(<<BTech, Plus(WS), InOpt, Grp(Rep(NotSepDot, 5, 50))>>), prefix |-> <<"B", ".", "T", "e", "c", "h">>],
    \* (r'M\.?Tech\.?\s+(?:in\s+)?([^,\n\.]{5,50})', 'M.Tech')
    [re |-> Cat(<<MTech, Plus(WS), InOpt, Grp(Rep(NotSepDot, 5, 50))>>), prefix |-> <<"M", ".", "T", "e", "c", "h">>],
    \* (r'MBA\s*(?:in\s+)?([^,\n\.]{0,30})', 'MBA')
    [re |-> Cat(<<Lit(<<"M", "B", "A">>), Star(WS), InOpt, Grp(Rep(NotSepDot, 0, 30))>>), prefix |-> <<"M", "B", "A">>],
    \* (r'BCA\s+(?:in\s+)?([^,\n\.]{5,40})', 'BCA')
    [re |-> Cat(<<Lit(<<"B", "C", "A">>), Plus(WS), InOpt, Grp(Rep(NotSepDot, 5, 40))>>), prefix |-> <<"B", "C", "A">>],
    \* (r'MCA\s+(?:in\s+)?([^,\n\.]{5,40})', 'MCA')
    [re |-> Cat(<<Lit(<<"M", "C", "A">>), Plus(WS), InOpt, Grp(Rep(NotSepDot, 5, 40))>>), prefix |-> <<"M", "C", "A">>],
    \* (r'M\.?Sc\.?\s+(?:in\s+)?([^,\n\.]{5,40})', 'M.Sc')
    [re |-> Cat(<<MSc, Plus(WS), InOpt, Grp(Rep(NotSepDot, 5, 40))>>), prefix |-> <<"M", ".", "S", "c">>],
    \* (r'B\.?Sc\.?\s+(?:in\s+)?([^,\n\.]{5,40})', 'B.Sc')
    [re |-> Cat(<<BSc, Plus(WS), InOpt, Grp(Rep(NotSepDot, 5, 40))>>), prefix |-> <<"B", ".", "S", "c">>],
    \* (r'Diploma\s+in\s+([^,\n\.]{5,40})', 'Diploma')
    [re |-> Cat(<<Lit(<<"D", "i", "p", "l", "o", "m", "a">>), Plus(WS), Lit(<<"i", "n">>), Plus(WS), Grp(Rep(NotSepDot, 5, 40))>>),
     prefix |-> <<"D", "i", "p", "l", "o", "m", "a">>],
    \* (r'Bachelor\s+of\s+([^,\n\.]{5,40})', 'Bachelor')
    [re |-> Cat(<<Lit(<<"B", "a", "c", "h", "e", "l", "o", "r">>), Plus(WS), Lit(<<"o", "f">>), Plus(WS), Grp(Rep(NotSepDot, 5, 40))>>),
     prefix |-> <<"B", "a", "c", "h", "e", "l", "o", "r">>],
    \* (r'Master\s+of\s+([^,\n\.]{5,40})', 'Master')
    [re |-> Cat(<<Lit(<<"M", "a", "s", "t", "e", "r">>), Plus(WS), Lit(<<"o", "f">>), Plus(WS), Grp(Rep(NotSepDot, 5, 40))>>),
     prefix |-> <<"M", "a", "s", "t", "e", "r">>] >>

MatchLimit == 10
TextMin == 3

RECURSIVE TextMatches(_, _, _)
\* the loop over matches[:10] of one pattern
TextMatches(matches, i, prefix) ==
    IF i > Len(matches) \/ i > MatchLimit THEN <<>>
    ELSE (IF Len(strip(matches[i])) > TextMin
          THEN <<Course(prefix \o <<" ">> \o strip(matches[i]), N_A, N_A, N_A, N_A,
                        "text_pattern")>>
          ELSE <<>>)
         \o TextMatches(matches, i + 1, prefix)

RECURSIVE TextFrom(_, _)
TextFrom(text, i) ==
    IF i > Len(text_patterns) THEN <<>>
    ELSE TextMatches(findall(text_patterns[i].re, text), 1, text_patterns[i].prefix)
         \o TextFrom(text, i + 1)
extract_courses_from_text(text) == TextFrom(text, 1)

RECURSIVE Flatten(_)
Flatten(ss) == IF ss = <<>> THEN <<>> ELSE Head(ss) \o Flatten(Tail(ss))

\* soup.get_text(): every text node of the page, in document order
get_text(d) ==
    Flatten([i \in 1..Len(d.tables) |-> Flatten(Flatten(d.tables[i]))])
    \o Flatten([i \in 1..Len(d.elements) |-> d.elements[i].text])
    \o d.text

course_selectors == <<".course-item", ".course-card", ".program-item", ".program-card",
                      ".course-details", ".course-info", "[data-course]", ".course-list li">>
\* soup.select(selector)
select(d, selector) == SelectSeq(d.elements, LAMBDA e : selector \in e.classes)

\* Strategy 1: every table of the page
TableStrategy(d) ==
    Flatten([i \in 1..Len(d.tables) |->
                extract_courses_from_table(d.tables[i], "Table " \o ToString(i))])

RECURSIVE ElementsLoop(_, _)
ElementsLoop(elements, i) ==
    IF i > Len(elements) THEN <<>>
    ELSE extract_course_from_element(elements[i]) \o ElementsLoop(elements, i + 1)

\* Strategy 2: every element of every selector
ContainerStrategy(d) ==
    Flatten([i \in 1..Len(course_selectors) |->
                ElementsLoop(select(d, course_selectors[i]), 1)])

\* a Strategy 3 that never runs
TextStrategyNever(courses) == FALSE
\* Strategy 3 without its "if not courses"
TextStrategyAlways(courses) == TRUE
\* "if not courses": Strategy 3 runs only if the list is still empty
TextStrategyRuns(courses) == courses = <<>>

\* Strategies 1 to 3 of scrape_courses_page: what each strategy added to the
\* list, whether Strategy 3 ran, and the list before duplicates are removed
Collected(table, container, text) ==
    [table |-> table, container |-> container, text |-> text,
     courses |-> table \o container \o text]
TextStrategy(d, table, container) ==
    Collected(table, container,
              IF TextStrategyRuns(table \o container)
              THEN extract_courses_from_text(get_text(d)) ELSE <<>>)
CollectCourses(d) == TextStrategy(d, TableStrategy(d), ContainerStrategy(d))

DedupMin == 3

\* a key that keeps the case of the name
course_name_cased(course) == strip(course.name)
\* course.get('name', '').lower().strip()
course_name_key(course) == strip(lower(course.name))

RECURSIVE UniqueFrom(_, _, _, _)
UniqueFrom(courses, i, seen_names, unique_courses) ==
    IF i > Len(courses) THEN unique_courses
    ELSE LET course_name == course_name_key(courses[i])
         IN IF course_name # <<>> /\ course_name \notin seen_names /\ Len(course_name) > DedupMin
            THEN UniqueFrom(courses, i + 1, seen_names \cup {course_name},
                            Append(unique_courses, courses[i]))
            ELSE UniqueFrom(courses, i + 1, seen_names, unique_courses)

\* a loop that starts at the second course
RemoveDuplicatesFromSecond(courses) == UniqueFrom(courses, 2, {}, <<>>)
\* "Remove duplicates based on course name"
RemoveDuplicates(courses) == UniqueFrom(courses, 1, {}, <<>>)

\* a scrape_courses_page whose seen_names outlive the call
ExtractCoursesSeenKept(d) ==
    UniqueFrom(CollectCourses(d).courses, 1,
               IF out.op = "none" THEN {}
               ELSE {course_name_key(out.result[i]) : i \in 1..Len(out.result)},
               <<>>)
RecruiterLimit == 15
\* the first RecruiterLimit entries of a list, as recruiters[:15] takes them
Capped(courses) ==
    SubSeq(courses, 1, IF Len(courses) < RecruiterLimit THEN Len(courses) ELSE RecruiterLimit)
\* a scrape_courses_page that caps its list as the recruiter list is capped
ExtractCoursesCapped(d) == Capped(RemoveDuplicates(CollectCourses(d).courses))
\* scrape_courses_page once the page is fetched
ExtractCourses(d) == RemoveDuplicates(CollectCourses(d).courses)

(***************************************************************************)
(* The fetch: make_request                                                 *)
(***************************************************************************)
DefaultDelay == 4          \* delay: float = 2.0
SmallResponse == 1000      \* len(response.content) < 1000 only warns

\* requests raises MissingSchema for a URL without a scheme
HasScheme(u) ==
    \E i \in 2..Len(u) : i + 2 < Len(u) /\ SubSeq(u, i, i + 2) = <<":", "/", "/">>

RequestExceptions == {"MissingSchema", "ConnectionError", "Timeout", "HTTPError"}
OtherExceptions == {"ParserError"}
\* what the site may answer: a page ("small" is one under 1000 bytes) or a failure
PageKinds == {"ok", "small"}
FailureKinds == {"conn_error", "timeout", "http_error", "parse_error"}

NoSoup == [is_none |-> TRUE]
Soup(page) == [is_none |-> FALSE, page |-> page]

\* len(response.content)
ContentLength(resp) == IF resp.kind = "small" THEN SmallResponse - 1 ELSE SmallResponse
\* a response came back whose body is under 1000 bytes: st.warning(...)
SmallBody(url, resp) ==
    HasScheme(url) /\ resp.kind \in PageKinds /\ ContentLength(resp) < SmallResponse

\* a try block that raises for a body under 1000 bytes
TryBlockRejectingSmall(url, resp) ==
    IF ~HasScheme(url) THEN "MissingSchema"
    ELSE CASE resp.kind = "conn_error" -> "ConnectionError"
           [] resp.kind = "timeout" -> "Timeout"
           [] resp.kind = "http_error" -> "HTTPError"
           [] resp.kind = "parse_error" -> "ParserError"
           [] ContentLength(resp) < SmallResponse -> "HTTPError"
           [] OTHER -> "none"
\* the exception the try block of make_request ends with, or "none"
TryBlock(url, resp) ==
    IF ~HasScheme(url) THEN "MissingSchema"           \* session.get
    ELSE CASE resp.kind = "conn_error" -> "ConnectionError"   \* session.get
           [] resp.kind = "timeout" -> "Timeout"              \* session.get, timeout=20
           [] resp.kind = "http_error" -> "HTTPError"         \* raise_for_status
           [] resp.kind = "parse_error" -> "ParserError"      \* BeautifulSoup(...)
           [] OTHER -> "none"

\* only "except requests.exceptions.RequestException"
CaughtRequestOnly(exc) == exc \in RequestExceptions
\* the two except clauses of make_request
Caught(exc) == exc \in RequestExceptions \/ exc \in OtherExceptions

\* a make_request that tries session.get three times before it gives up
make_request_retrying(url, resp) ==
    LET exc == TryBlock(url, resp)
    IN IF exc = "none" THEN [out |-> "return", soup |-> Soup(resp.page), exc |-> exc, attempts |-> 1]
       ELSE [out |-> "return", soup |-> NoSoup, exc |-> exc, attempts |-> 3]
\* make_request(url): what it returns or raises, and how many times it called
\* session.get
make_request(url, resp) ==
    LET exc == TryBlock(url, resp)
    IN IF exc = "none" THEN [out |-> "return", soup |-> Soup(resp.page), exc |-> exc, attempts |-> 1]
       ELSE IF Caught(exc) THEN [out |-> "return", soup |-> NoSoup, exc |-> exc, attempts |-> 1]
       ELSE [out |-> "raise", soup |-> NoSoup, exc |-> exc, attempts |-> 1]

\* a make_request that does not sleep
request_delay_none(url) == 0
\* the delay make_request sleeps before session.get: every scrape_* calls
\* make_request(url) without a delay, so the default applies
request_delay(url) == DefaultDelay

(***************************************************************************)
(* The four scrape_* methods.  A result is [out |-> "return", value |-> v] *)
(* or [out |-> "raise"]; mr is what make_request did.                      *)
(***************************************************************************)
EmptyMap == [x \in {} |-> x]     \* {} and []
Truthy(v) == DOMAIN v # {}

\* the college_data dict of scrape_college_overview; page.name is the text of the
\* first name selector longer than 5
OverviewData(page) ==
    [name |-> page.name, location |-> "N/A", established |-> "N/A", type |-> "N/A",
     affiliation |-> "N/A", website |-> "N/A", ranking |-> EmptyMap, overview |-> "N/A"]

\* admission_data; page.exams are the exam keywords found in the page text
AdmissionData(page) ==
    [eligibility_criteria |-> <<>>, entrance_exams |-> page.exams,
     application_process |-> <<>>, important_dates |-> <<>>,
     selection_process |-> "N/A", application_fee |-> "N/A"]

\* placement_data; page.recruiters are the recruiter keywords found in the page text
PlacementData(page) ==
    [placement_rate |-> "N/A", average_package |-> "N/A", highest_package |-> "N/A",
     median_package |-> "N/A", lowest_package |-> "N/A", total_offers |-> "N/A",
     companies_visited |-> "N/A",
     top_recruiters |-> SubSeq(page.recruiters, 1,
                               IF Len(page.recruiters) < RecruiterLimit
                               THEN Len(page.recruiters) ELSE RecruiterLimit),
     sector_wise_placement |-> EmptyMap]

(***************************************************************************)
(* The pages the remote site may serve                                     *)
(***************************************************************************)
PageA == [name |-> "College A"]
PageB == [name |-> "College B"]
AdmissionPage == [exams |-> <<"GATE", "CAT">>]
PlacementPage == [recruiters |-> <<"Google", "TCS">>]
CoursesPage ==
    [tables |-> << << <<<<"C", "o", "u", "r", "s", "e">>, <<"D", "u", "r", "a", "t", "i", "o", "n">>>>,
                      <<<<"B", ".", "T", "e", "c", "h", " ", "C", "S", "E">>, <<"4", " ", "y", "e", "a", "r", "s">>>> >> >>,
     elements |-> <<>>, text |-> <<>>]
EmptyPage == [tables |-> <<>>, elements |-> <<>>, text |-> <<"W", "e", "l", "c", "o", "m", "e">>]

PagesOf(section) ==
    CASE section = "overview" -> {PageA, PageB}
      [] section = "courses" -> {CoursesPage, EmptyPage}
      [] section = "admissions" -> {AdmissionPage}
      [] section = "placements" -> {PlacementPage}

NoPage == [name |-> "none"]
Responses(section) ==
    [kind : PageKinds, page : PagesOf(section)] \cup [kind : FailureKinds, page : {NoPage}]

\* scrape_courses_page once the page is fetched, tabulated over the pages served
ExtractedCourses == [d \in PagesOf("courses") |-> ExtractCourses(d)]

CoursesData(page) == ExtractedCourses[page]

\* "soup = self.make_request(url); if not soup: return {}", else the data
\* built from the soup: mr is what make_request did, data what the rest of the
\* method builds from the page
IfSoup(mr, data) ==
    IF mr.out = "raise" THEN [out |-> "raise", value |-> EmptyMap, mr |-> mr]
    ELSE IF mr.soup.is_none THEN [out |-> "return", value |-> EmptyMap, mr |-> mr]
    ELSE [out |-> "return", value |-> data, mr |-> mr]

scrape_college_overview(url, resp) ==
    IfSoup(make_request(url, resp), OverviewData(resp.page))
scrape_courses_page(url, resp) ==
    IfSoup(make_request(url, resp), CoursesData(resp.page))
scrape_admissions_page(url, resp) ==
    IfSoup(make_request(url, resp), AdmissionData(resp.page))
scrape_placements_page(url, resp) ==
    IfSoup(make_request(url, resp), PlacementData(resp.page))

Scrape(section, url, resp) ==
    CASE section = "overview" -> scrape_college_overview(url, resp)
      [] section = "courses" -> scrape_courses_page(url, resp)
      [] section = "admissions" -> scrape_admissions_page(url, resp)
      [] section = "placements" -> scrape_placements_page(url, resp)

(***************************************************************************)
(* main(): the sidebar                                                     *)
(***************************************************************************)
DefaultUrl == <<"h", ":", "/", "/", "c", "/", "u">>     \* stands for the default careers360 university URL
UrlChoices == {DefaultUrl, <<"h", ":", "/", "/", "c", "/", "u", "/">>, <<>>}

SliderMin == 2               \* st.slider(..., 1.0, 5.0, 2.0, 0.5)
SliderMax == 10
SliderDefault == 4
DelayChoices == {SliderMin, SliderDefault, SliderMax}

\* URLs built on college_url as typed
SubUrlsUnstripped(url) ==
    [courses_url |-> url \o <<"/", "c", "o", "u", "r", "s", "e", "s">>,
     admission_url |-> url \o <<"/", "a", "d", "m", "i", "s", "s", "i", "o", "n">>,
     placement_url |-> url \o <<"/", "p", "l", "a", "c", "e", "m", "e", "n", "t">>]
\* the auto-generated URLs, the default values of the three keyed text inputs
SubUrls(url) ==
    LET base_url == rstrip(url, {"/"})
    IN [courses_url |-> base_url \o <<"/", "c", "o", "u", "r", "s", "e", "s">>,
        admission_url |-> base_url \o <<"/", "a", "d", "m", "i", "s", "s", "i", "o", "n">>,
        placement_url |-> base_url \o <<"/", "p", "l", "a", "c", "e", "m", "e", "n", "t">>]

\* "if college_url:" renders the three keyed inputs; their keys then exist in
\* session_state
Sidebar(url, keys) == IF url # <<>> THEN SubUrls(url) ELSE keys

\* at the end of a script run Streamlit drops the state of widgets the run did
\* not render
EndOfRun(url, keys) == IF url # <<>> THEN keys ELSE EmptyMap

UrlKey(section) ==
    CASE section = "courses" -> "courses_url"
      [] section = "admissions" -> "admission_url"
      [] section = "placements" -> "placement_url"

\* the argument of the scrape_* call: college_url, or st.session_state.<key>,
\* which raises AttributeError when the key is not there
UrlOf(section) ==
    IF section = "overview" THEN Ret(college_url)
    ELSE IF UrlKey(section) \in DOMAIN sub_urls THEN Ret(sub_urls[UrlKey(section)])
    ELSE Raise("AttributeError")

(***************************************************************************)
(* main(): the scraping logic                                              *)
(***************************************************************************)
Put(data, key, value) ==
    [x \in DOMAIN data \cup {key} |-> IF x = key THEN value ELSE data[x]]

\* every branch writing college_data['overview']
data_key_overview(section) == "overview"
\* the key of st.session_state.college_data a section's result is stored under
data_key(section) == section

\* the assignment without its "if <section>_data:"
StoreAlways(data, section, value) == Put(data, data_key(section), value)
\* an assignment that deletes the key when the result is empty
StoreOrRemove(data, section, value) ==
    IF Truthy(value) THEN Put(data, data_key(section), value)
    ELSE [x \in DOMAIN data \ {data_key(section)} |-> data[x]]
\* "if <section>_data: st.session_state.college_data[key] = <section>_data"
Store(data, section, value) ==
    IF Truthy(value) THEN Put(data, data_key(section), value) ELSE data

\* a branch that calls st.success whatever the result
ReportSuccess(mode, value) == IF mode = "all" THEN "none" ELSE "success"
\* what a branch shows for the result of its scrape_* call: st.success or
\* st.error in the single-section branches, nothing per section in "all"
Report(mode, value) ==
    IF mode = "all" THEN "none"
    ELSE IF Truthy(value) THEN "success" ELSE "error"

Requested(mode) == IF mode = "all" THEN SectionNames ELSE {mode}

\* progress_bar.progress(...) before each step of "all", in tenths
ProgressAt(section) ==
    CASE section = "overview" -> 2
      [] section = "courses" -> 4
      [] section = "admissions" -> 7
      [] section = "placements" -> 9
ProgressDone == 10

NextSection(section) ==
    CASE section = "overview" -> "courses"
      [] section = "courses" -> "admissions"
      [] section = "admissions" -> "placements"
      [] section = "placements" -> "placements"

(***************************************************************************)
(* Time                                                                    *)
(***************************************************************************)
MaxIdle == 2        \* how long the model lets the user wait between clicks
MaxLatency == 1     \* how long a GET takes at most
MaxOversleep == 1   \* how much longer than asked time.sleep may take

Elapse(t, d) == IF t < 0 THEN t ELSE t + d
Sleeps(d) == {d + x : x \in 0..MaxOversleep}

(***************************************************************************)
(* State                                                                   *)
(***************************************************************************)
NoRun == [mode |-> None, attempted |-> {}, ok |-> {}, had |-> {}, status |-> "none"]
NoFetch == [called |-> FALSE]
NoOut == [op |-> "none"]
NoBar == -1         \* no progress bar on the page

\* the app after its first script run: nothing scraped, no request pending
AppStart ==
    /\ college_url = DefaultUrl
    /\ sub_urls = SubUrls(DefaultUrl)
    /\ delay_seconds = SliderDefault
    /\ scraping = None
    /\ college_data = EmptyMap
    /\ pc = "idle"
    /\ cur = "overview"
    /\ progress = NoBar
    /\ sinceLast = -1
    /\ run = NoRun
    /\ lastFetch = NoFetch

Init ==
    /\ AppStart
    /\ doc = <<>>
    /\ out = NoOut

\* a new script run starts at the top of main(): the sidebar is rendered, then
\* the scraping logic is reached
StartRun(url) ==
    /\ sub_urls' = Sidebar(url, sub_urls)
    /\ pc' = "logic"
    /\ progress' = NoBar
    /\ run' = NoRun
    /\ lastFetch' = NoFetch

\* the user edits the college URL
EnterUrl(url) ==
    /\ pc = "idle"
    /\ url # college_url
    /\ college_url' = url
    /\ StartRun(url)
    /\ UNCHANGED <<delay_seconds, scraping, college_data, cur, sinceLast, doc, out>>

\* the user moves the delay slider
MoveSlider(d) ==
    /\ pc = "idle"
    /\ d # delay_seconds
    /\ delay_seconds' = d
    /\ StartRun(college_url)
    /\ UNCHANGED <<college_url, scraping, college_data, cur, sinceLast, doc, out>>

\* the user clicks one of the five scrape buttons
ClickScrape(mode) ==
    /\ pc = "idle"
    /\ scraping' = mode
    /\ StartRun(college_url)
    /\ UNCHANGED <<college_url, delay_seconds, college_data, cur, sinceLast, doc, out>>

\* the user clicks "Clear Data": the data is reset and st.rerun() starts a new run
ClickClear ==
    /\ pc = "idle"
    /\ college_data' = EmptyMap
    /\ StartRun(college_url)
    /\ UNCHANGED <<college_url, delay_seconds, scraping, cur, sinceLast, doc, out>>

\* time passes while the app waits for the user
Tick ==
    /\ pc = "idle"
    /\ sinceLast >= 0
    /\ sinceLast < MaxIdle
    /\ sinceLast' = sinceLast + 1
    /\ UNCHANGED <<college_url, sub_urls, delay_seconds, scraping, college_data, pc, cur,
                   progress, run, lastFetch, doc, out>>

\* "if st.session_state.get('scraping')" is false: the results are displayed and
\* the run ends
Display ==
    /\ pc = "logic"
    /\ scraping = None
    /\ pc' = "idle"
    /\ sub_urls' = EndOfRun(college_url, sub_urls)
    /\ progress' = NoBar
    /\ run' = NoRun
    /\ lastFetch' = NoFetch
    /\ UNCHANGED <<college_url, delay_seconds, scraping, college_data, cur, sinceLast,
                   doc, out>>

\* the scrape_* call of `section` starts: its argument is evaluated, and
\* make_request sleeps; an exception ends the script run where it stands
CallScrape(section, r) ==
    IF UrlOf(section).ok
    THEN /\ \E slept \in Sleeps(request_delay(UrlOf(section).val)) :
                sinceLast' = Elapse(sinceLast, slept)
         /\ pc' = "get"
         /\ cur' = section
         /\ run' = r
         /\ UNCHANGED sub_urls
    ELSE /\ pc' = "idle"
         /\ run' = [r EXCEPT !.status = "crashed"]
         /\ sub_urls' = EndOfRun(college_url, sub_urls)
         /\ UNCHANGED <<cur, sinceLast>>

\* one of the four single-section branches
ScrapeSection ==
    /\ pc = "logic"
    /\ scraping \in SectionNames
    /\ CallScrape(scraping, [mode |-> scraping, attempted |-> {}, ok |-> {},
                             had |-> DOMAIN college_data, status |-> "running"])
    /\ UNCHANGED <<college_url, delay_seconds, scraping, college_data, progress, lastFetch,
                   doc, out>>

\* the "all" branch: progress_bar = st.progress(0)
StartAll ==
    /\ pc = "logic"
    /\ scraping = "all"
    /\ progress' = 0
    /\ pc' = "next"
    /\ cur' = "overview"
    /\ run' = [mode |-> "all", attempted |-> {}, ok |-> {},
               had |-> DOMAIN college_data, status |-> "running"]
    /\ UNCHANGED <<college_url, sub_urls, delay_seconds, scraping, college_data, sinceLast,
                   lastFetch, doc, out>>

\* "Step n" of the "all" branch begins
AllStep ==
    /\ pc = "next"
    /\ progress' = ProgressAt(cur)
    /\ CallScrape(cur, run)
    /\ UNCHANGED <<college_url, delay_seconds, scraping, college_data, lastFetch, doc, out>>

\* session.get is issued and the scrape_* call returns; the result is stored and
\* the branch goes on
Returned(res, small, latency) ==
    LET ran == [run EXCEPT !.attempted = @ \cup {cur},
                           !.ok = IF res.out = "return" /\ Truthy(res.value)
                                  THEN @ \cup {cur} ELSE @]
        last == scraping # "all" \/ cur = "placements"
    IN /\ pc = "get"
       /\ lastFetch' = [called |-> TRUE, section |-> cur, exc |-> res.mr.exc,
                        out |-> res.mr.out, is_none |-> res.mr.soup.is_none,
                        attempts |-> res.mr.attempts, scrape_out |-> res.out,
                        empty |-> ~Truthy(res.value), small |-> small,
                        shown |-> IF res.out = "raise" THEN "none"
                                  ELSE Report(scraping, res.value)]
       /\ IF res.out = "raise"
          THEN /\ pc' = "idle"
               /\ run' = [ran EXCEPT !.status = "crashed"]
               /\ sub_urls' = EndOfRun(college_url, sub_urls)
               /\ sinceLast' = latency
               /\ UNCHANGED <<scraping, college_data, cur, progress>>
          ELSE /\ college_data' = Store(college_data, cur, res.value)
               /\ UNCHANGED sub_urls
               /\ IF last
                  THEN \* st.session_state.scraping = None; st.rerun()
                       /\ scraping' = None
                       /\ pc' = "logic"
                       /\ run' = [ran EXCEPT !.status = "done"]
                       /\ progress' = IF scraping = "all" THEN ProgressDone ELSE progress
                       /\ sinceLast' = latency
                       /\ UNCHANGED cur
                  ELSE \* time.sleep(delay_seconds)
                       /\ pc' = "next"
                       /\ cur' = NextSection(cur)
                       /\ run' = ran
                       /\ \E slept \in Sleeps(delay_seconds) : sinceLast' = latency + slept
                       /\ UNCHANGED <<scraping, progress>>
       /\ UNCHANGED <<college_url, delay_seconds, doc, out>>

Get(resp, latency) ==
    Returned(Scrape(cur, UrlOf(cur).val, resp), SmallBody(UrlOf(cur).val, resp), latency)

Next ==
    \/ \E url \in UrlChoices : EnterUrl(url)
    \/ \E d \in DelayChoices : MoveSlider(d)
    \/ \E mode \in Modes : ClickScrape(mode)
    \/ ClickClear
    \/ Tick
    \/ Display
    \/ ScrapeSection
    \/ StartAll
    \/ AllStep
    \/ \E resp \in Responses(cur), latency \in 0..MaxLatency : Get(resp, latency)

Spec == Init /\ [][Next]_vars

(***************************************************************************)
(* scrape_courses_page on its own, over the pages a courses URL may serve  *)
(***************************************************************************)
MaxTables == 1      \* tables on a page
MaxElements == 1    \* course containers on a page

TablePool == {
    << <<<<"C", "o", "u", "r", "s", "e">>, <<"D", "u", "r", "a", "t", "i", "o", "n">>>>,
       <<<<"B", ".", "T", "e", "c", "h", " ", "C", "S", "E">>, <<"4", " ", "y", "e", "a", "r", "s">>>>,
       <<<<"B", ".", "T", "E", "C", "H", " ", "C", "S", "E">>, <<"R", "s", ".", " ", "5", " ", "l", "a", "k", "h">>>> >>,
    << <<<<"N", "a", "m", "e">>, <<"E", "l", "i", "g", "i", "b", "i", "l", "i", "t", "y">>>>,
       <<<<"M", ".", "T", "e", "c", "h", " ", "V", "L", "S", "I">>, <<"2", " ", "y", "e", "a", "r", "s">>>>,
       <<<<"M", "B", "A", " ", "F", "i", "n", "a", "n", "c", "e">>, <<"G", "r", "a", "d", "u", "a", "t", "i", "o", "n", " ", "r", "e", "q", "u", "i", "r", "e", "d", ".">>>>,
       <<<<"B", "C", "A", " ", "G", "e", "n", "e", "r", "a", "l">>, <<"6", "0", " ", "s", "e", "a", "t", "s">>>> >>,
    << <<<<"F", "a", "c", "i", "l", "i", "t", "y">>, <<"O", "p", "e", "n">>>>,
       <<<<"G", "y", "m">>, <<"Y", "e", "s">>>> >>,
    << <<<<"P", "r", "o", "g", "r", "a", "m", "m", "e">>, <<"S", "t", "a", "t", "u", "s">>>>,
       <<<<"B", ".", "T", "e", "c", "h", " ", "C", "i", "v", "i", "l">>, <<"4", " ", "y", "e", "a", "r", "s">>>>,
       <<<<"L", "i", "b", "r", "a", "r", "y">>, <<"O", "p", "e", "n">>>> >>,
    << <<<<"P", "r", "o", "g", "r", "a", "m", "m", "e">>, <<"S", "t", "a", "t", "u", "s">>>>,
       <<<<"M", ".", "T", "e", "c", "h", " ", "P", "o", "w", "e", "r">>, <<"2", " ", "y", "e", "a", "r", "s">>>>,
       <<<<"G", "y", "m">>, <<"Y", "e", "s">>>> >> }
ElementPool == {
    [classes |-> {".course-item"}, text |-> <<"B", ".", "T", "e", "c", "h", " ", "C", "S", "E", ",", " ", "4", " ", "y", "e", "a", "r", "s">>],
    [classes |-> {".course-card", ".course-info"}, text |-> <<"M", "B", "A", " ", "M", "a", "r", "k", "e", "t", "i", "n", "g", ",", " ", "2", " ", "y", "e", "a", "r", "s">>] }
TextPool == {<<"W", "e", "l", "c", "o", "m", "e">>, <<"W", "e", " ", "o", "f", "f", "e", "r", " ", "B", ".", "T", "e", "c", "h", " ", "i", "n", " ", "M", "e", "c", "h", "a", "n", "i", "c", "a", "l", " ", "E", "n", "g", "i", "n", "e", "e", "r", "i", "n", "g", ",", " ", "a", "n", "d", " ", "M", "B", "A", ".">>}

SeqsUpTo(S, n) == UNION {[1..k -> S] : k \in 0..n}
Docs == [tables : SeqsUpTo(TablePool, MaxTables),
         elements : SeqsUpTo(ElementPool, MaxElements),
         text : TextPool]

\* pages that list many courses: one table of n rows and k course containers,
\* every row and container naming a course of its own
MaxRows == 16        \* rows of the long table
MaxContainers == 1   \* containers next to the long table
RowLetters == <<"A", "B", "C", "D", "E", "F", "G", "H", "I", "J", "K", "L", "M", "N", "O", "P", "Q", "R", "S", "T", "U", "V", "W", "X", "Y", "Z">>
LongTable(n) ==
    << <<<<"C", "o", "u", "r", "s", "e">>, <<"D", "u", "r", "a", "t", "i", "o", "n">>>> >> \o
    [i \in 1..n |-> <<<<"B", ".", "T", "e", "c", "h", " ", "U", "n", "i", "t", " ">> \o <<RowLetters[i]>>, <<"4", " ", "y", "e", "a", "r", "s">>>>]
LongElements(k) ==
    [i \in 1..k |-> [classes |-> {".course-item"},
                     text |-> <<"M", "B", "A", " ", "T", "r", "a", "c", "k", " ">> \o <<RowLetters[i]>> \o <<",", " ", "2", " ", "y", "e", "a", "r", "s">>]]
LongDoc(n, k) ==
    [tables |-> IF n = 0 THEN <<>> ELSE <<LongTable(n)>>,
     elements |-> LongElements(k),
     text |-> <<>>]
LongDocs == {LongDoc(n, k) : n \in 0..MaxRows, k \in 0..MaxContainers}

\* pages on which an extractor raises: "Graduation required." makes
\* extract_eligibility raise in the second data row of FaultyTable and in
\* FaultyElement; two tables and two containers,
\* one of each faulty
FaultyTable ==
    << <<<<"N", "a", "m", "e">>, <<"E", "l", "i", "g", "i", "b", "i", "l", "i", "t", "y">>>>,
       <<<<"M", ".", "T", "e", "c", "h", " ", "V", "L", "S", "I">>, <<"2", " ", "y", "e", "a", "r", "s">>>>,
       <<<<"M", "B", "A", " ", "F", "i", "n", "a", "n", "c", "e">>, <<"G", "r", "a", "d", "u", "a", "t", "i", "o", "n", " ", "r", "e", "q", "u", "i", "r", "e", "d", ".">>>>,
       <<<<"B", "C", "A", " ", "G", "e", "n", "e", "r", "a", "l">>, <<"6", "0", " ", "s", "e", "a", "t", "s">>>> >>
FaultyElement ==
    [classes |-> {".course-item"}, text |-> <<"M", "C", "A", " ", "E", "v", "e", "n", "i", "n", "g", ",", " ", "G", "r", "a", "d", "u", "a", "t", "i", "o", "n", " ", "r", "e", "q", "u", "i", "r", "e", "d", ".">>]
FaultDocs ==
    [tables : {ts \in [1..2 -> TablePool] : \E i \in 1..2 : ts[i] = FaultyTable},
     elements : {es \in [1..2 -> ElementPool \cup {FaultyElement}] :
                    \E i \in 1..2 : es[i] = FaultyElement},
     text : {<<>>}]

InitCourses ==
    /\ AppStart
    /\ doc \in Docs \cup LongDocs \cup FaultDocs
    /\ out = NoOut

\* what scrape_courses_page collected and what it returned
Extracted(collected, returned) ==
    [op |-> "scrape_courses_page", table |-> collected.table,
     container |-> collected.container, text |-> collected.text,
     courses |-> collected.courses, result |-> returned]

\* scrape_courses_page runs on the fetched page
ExtractPage ==
    /\ out.op = "none"
    /\ out' = Extracted(CollectCourses(doc), ExtractCourses(doc))
    /\ UNCHANGED <<college_url, sub_urls, delay_seconds, scraping, college_data, pc, cur,
                   progress, sinceLast, run, lastFetch, doc>>

\* the duplicate-removal loop runs once more, on the list it returned
DedupAgain ==
    /\ out.op = "scrape_courses_page"
    /\ out' = [op |-> "dedup", given |-> out.result, result |-> RemoveDuplicates(out.result)]
    /\ UNCHANGED <<college_url, sub_urls, delay_seconds, scraping, college_data, pc, cur,
                   progress, sinceLast, run, lastFetch, doc>>

\* scrape_courses_page runs a second time on the same page
ExtractAgain ==
    /\ out.op = "scrape_courses_page"
    /\ out' = [op |-> "again", first |-> out.result, result |-> ExtractCourses(doc)]
    /\ UNCHANGED <<college_url, sub_urls, delay_seconds, scraping, college_data, pc, cur,
                   progress, sinceLast, run, lastFetch, doc>>

NextCourses == ExtractPage \/ DedupAgain \/ ExtractAgain

SpecCourses == InitCourses /\ [][NextCourses]_vars

(***************************************************************************)
(* The four field extractors on their own, over texts that reach each of   *)
(* their patterns                                                          *)
(***************************************************************************)
FieldTexts == {
    <<>>, <<"W", "e", "l", "c", "o", "m", "e">>, <<"4", " ", "y", "e", "a", "r", "s">>, <<"6", " ", "s", "e", "m">>, <<"d", "u", "r", "a", "t", "i", "o", "n", ":", " ", "2", " ", "y", "r">>, <<"y", "e", "a", "r", " ", "4">>,
    <<"B", ".", "T", "e", "c", "h", " ", "C", "S", "E", " ", "4", " ", "Y", "e", "a", "r", "s", " ", "R", "s", ".", " ", "2", ",", "0", "0", ",", "0", "0", "0", " ", "6", "0", " ", "s", "e", "a", "t", "s">>,
    <<"₹", " ", "2", " ", "l", "a", "k", "h">>, <<"R", "s", " ", "1", "0", ",", "0", "0", "0">>, <<"f", "e", "e", "s", ":", " ", "₹", " ", "1", "0", "0">>, <<"f", "e", "e", " ", "R", "s", ".", " ", "5">>, <<"2", ".", "5", " ", "l", "a", "k", "h">>, <<"f", "e", "e", "s", " ", "₹">>,
    <<"6", "0", " ", "s", "e", "a", "t", "s">>, <<"i", "n", "t", "a", "k", "e", ":", " ", "1", "2", "0">>, <<"c", "a", "p", "a", "c", "i", "t", "y", " ", "4", "0">>, <<"a", "d", "m", "i", "s", "s", "i", "o", "n", "s", ":", " ", "3", "0">>,
    <<"e", "l", "i", "g", "i", "b", "i", "l", "i", "t", "y", ":", " ", "1", "0", "+", "2", " ", "p", "a", "s", "s", ".">>, <<"q", "u", "a", "l", "i", "f", "i", "c", "a", "t", "i", "o", "n", ":", " ", "g", "r", "a", "d", "u", "a", "t", "i", "o", "n", ".">>, <<"1", "0", "+", "2", " ", "w", "i", "t", "h", " ", "P", "C", "M", ".">>,
    <<"1", "0", "+", "2", " ", "n", "o", " ", "e", "n", "d">>, <<"g", "r", "a", "d", "u", "a", "t", "i", "o", "n", " ", "r", "e", "q", "u", "i", "r", "e", "d", ".">>, <<"b", "a", "c", "h", "e", "l", "o", "r", " ", "d", "e", "g", "r", "e", "e", "!">>, <<"B", "a", "c", "h", "e", "l", "o", "r", " ", "o", "f", " ", "A", "r", "t", "s">>,
    <<"n", "e", "e", "d", "s", " ", "g", "r", "a", "d", "u", "a", "t", "i", "o", "n", " ", "o", "r", " ", "1", "0", "+", "2", ".">>, <<"e", "l", "i", "g", "i", "b", "i", "l", "i", "t", "y", ".">>,
    <<"M", "B", "A", " ", "2", " ", "y", "e", "a", "r", "s", " ", "e", "l", "i", "g", "i", "b", "i", "l", "i", "t", "y", ":", " ", "g", "r", "a", "d", "u", "a", "t", "i", "o", "n", ".", " ", "f", "e", "e", "s", " ", "3", " ", "l", "a", "k", "h">> }

InitFields ==
    /\ AppStart
    /\ doc \in FieldTexts
    /\ out = NoOut

Called(op, result) ==
    /\ out.op = "none"
    /\ out' = [op |-> op, result |-> result]
    /\ UNCHANGED <<college_url, sub_urls, delay_seconds, scraping, college_data, pc, cur,
                   progress, sinceLast, run, lastFetch, doc>>

CallDuration == Called("extract_duration", extract_duration(doc))
CallFees == Called("extract_fees", extract_fees(doc))
CallSeats == Called("extract_seats", extract_seats(doc))
CallEligibility == Called("extract_eligibility", extract_eligibility(doc))

NextFields == CallDuration \/ CallFees \/ CallSeats \/ CallEligibility

SpecFields == InitFields /\ [][NextFields]_vars

(***************************************************************************)
(* Properties                                                              *)
(***************************************************************************)

\* C1: make_request never raises: whatever the URL and whatever fails (the
\* transport, a timeout, the HTTP status, the parser), it returns None, and the
\* scrape_* method that called it returns an empty result instead of raising.
C1_FetchNeverRaises ==
    lastFetch.called =>
        /\ lastFetch.out = "return"
        /\ lastFetch.scrape_out = "return"
        /\ lastFetch.exc # "none" => lastFetch.is_none /\ lastFetch.empty

\* a parser error while the courses page is scraped
C1_ParserErrorSeen ==
    lastFetch.called /\ lastFetch.exc = "ParserError" /\ lastFetch.section = "courses"

\* C2 as stated: a fetch whose request fails has made exactly 3 attempts.
C2_ThreeAttempts ==
    lastFetch.called /\ lastFetch.exc # "none" => lastFetch.attempts = 3

\* C2 as the code has it: a fetch whose request fails has called session.get
\* exactly once, and returns None.
C2_OneAttempt ==
    lastFetch.called /\ lastFetch.exc # "none" =>
        lastFetch.attempts = 1 /\ lastFetch.is_none

\* a request that timed out
C2_TimeoutSeen == lastFetch.called /\ lastFetch.exc = "Timeout"

\* C3: whenever session.get is about to be issued, at least the default delay
\* of make_request has passed since the previous session.get was issued, in
\* every scraping mode.
C3_MinDelayBetweenRequests ==
    pc = "get" => sinceLast < 0 \/ sinceLast >= DefaultDelay

\* a request issued exactly the default delay after the previous one
C3_RequestAtMinDelay == pc = "get" /\ sinceLast = DefaultDelay

\* C4 as stated: when the table strategy yields a record, no record of the
\* container strategy or of the free-text strategy is in the output.
C4_StopsAtFirstStrategy ==
    out.op = "scrape_courses_page" /\ out.table # <<>> =>
        \A i \in 1..Len(out.result) :
            out.result[i].source \notin {"element", "text_pattern"}

NormalizedName(course) == strip(lower(course.name))

\* C4 as the code has it: the table and the container strategies both run and
\* both contribute, table records first; only the free-text strategy is skipped
\* when an earlier strategy yielded a record.
C4_OnlyFreeTextIsConditional ==
    out.op = "scrape_courses_page" =>
        /\ out.table # <<>> \/ out.container # <<>> =>
              /\ out.text = <<>>
              /\ \A i \in 1..Len(out.result) : out.result[i].source # "text_pattern"
        /\ \A k \in 1..Len(out.container) :
              \E i \in 1..Len(out.result) :
                  NormalizedName(out.result[i]) = NormalizedName(out.container[k])
        /\ \A i, j \in 1..Len(out.result) :
              i < j /\ out.result[i].source = "element" => out.result[j].source = "element"

\* a page on which the table strategy and the container strategy both yield
C4_TableAndContainerYield ==
    /\ out.op = "scrape_courses_page"
    /\ out.table # <<>>
    /\ \E i \in 1..Len(out.result) : out.result[i].source = "element"

RECURSIVE Pick(_, _, _)
\* the subsequence of courses at the indices in keep
Pick(courses, keep, i) ==
    IF i > Len(courses) THEN <<>>
    ELSE (IF i \in keep THEN <<courses[i]>> ELSE <<>>) \o Pick(courses, keep, i + 1)

\* the indices of the first occurrence of every normalized name longer than 3
FirstOccurrences(courses) ==
    {i \in 1..Len(courses) :
        /\ Len(NormalizedName(courses[i])) > 3
        /\ \A j \in 1..(i - 1) : NormalizedName(courses[j]) # NormalizedName(courses[i])}

\* C5: the returned list has no two records with the same normalized name and
\* none whose normalized name has length 3 or less, and it is the subsequence of
\* the strategies' output made of the first occurrence of every such name.
C5_Deduplicated ==
    out.op = "scrape_courses_page" =>
        /\ \A i, j \in 1..Len(out.result) :
              i # j => NormalizedName(out.result[i]) # NormalizedName(out.result[j])
        /\ \A i \in 1..Len(out.result) : Len(NormalizedName(out.result[i])) > 3
        /\ out.result = Pick(out.courses, FirstOccurrences(out.courses), 1)

\* the strategies yielded two records whose names differ only in case
C5_DuplicateDropped ==
    /\ out.op = "scrape_courses_page"
    /\ Len(out.result) < Len(out.courses)
    /\ \E i, j \in 1..Len(out.courses) :
          /\ i < j
          /\ out.courses[i].name # out.courses[j].name
          /\ NormalizedName(out.courses[i]) = NormalizedName(out.courses[j])

\* C6: removing duplicates from a list that duplicate removal returned gives the
\* same list, in content and order.
C6_DedupIdempotent == out.op = "dedup" => out.result = out.given

\* duplicate removal ran again on a list of two courses or more
C6_DedupRanTwice == out.op = "dedup" /\ Len(out.given) >= 2

\* C7 as stated: every field extractor returns a value or 'N/A' for every text
\* and never raises.
C7_ExtractorsTotal ==
    out.op \in {"extract_duration", "extract_fees", "extract_seats", "extract_eligibility"}
        => out.result.ok

\* C8 as stated: a run over all sections attempts every section, whichever of
\* them failed, and stores the sections that succeeded.
C8_AllSectionsAttempted ==
    run.mode = "all" /\ run.status \in {"done", "crashed"} =>
        /\ run.attempted = SectionNames
        /\ run.ok \subseteq DOMAIN college_data

\* C9 as stated: once a request is processed, every requested section has an
\* entry in college_data.
C9_EveryRequestedSectionHasEntry ==
    run.status = "done" => Requested(run.mode) \subseteq DOMAIN college_data

\* C9 as the code has it: while and after a request is processed, the sections
\* with an entry are those that had one before the request and those whose
\* scrape returned a non-empty result; a section whose fetch failed or whose
\* extraction found nothing gets no entry, and no entry is empty.
C9_EntryOnlyForNonEmptyResult ==
    run.status # "none" =>
        /\ DOMAIN college_data = run.had \cup run.ok
        /\ \A s \in DOMAIN college_data : Truthy(college_data[s])

\* a run over all sections in which some section succeeded and some did not
C9_PartialRunDone ==
    /\ run.status = "done"
    /\ run.mode = "all"
    /\ run.ok # {}
    /\ Requested(run.mode) \ DOMAIN college_data # {}

\* processing a single-section request leaves every other key as it was
OtherKeysKept ==
    pc = "get" /\ scraping \in SectionNames =>
        \A k \in SectionNames \ {scraping} :
            /\ k \in DOMAIN college_data' <=> k \in DOMAIN college_data
            /\ k \in DOMAIN college_data => college_data'[k] = college_data[k]

\* C10: the keys of college_data are always among overview, courses, admissions
\* and placements, and processing a single-section request for s adds or changes
\* no key other than s.
C10_OnlyRequestedKeys ==
    [][DOMAIN college_data' \subseteq SectionNames /\ OtherKeysKept]_vars

\* a courses request stored its result next to an overview stored earlier
C10_SingleSectionStored ==
    /\ run.mode = "courses"
    /\ run.status = "done"
    /\ run.ok = {"courses"}
    /\ run.had = {"overview"}

\* C11 as stated: when the page was fetched and the extraction found nothing,
\* the empty result is not reported as a failure.
C11_EmptyNotReportedAsFailure ==
    lastFetch.called /\ lastFetch.exc = "none" /\ lastFetch.empty =>
        lastFetch.shown # "error"

\* C11 as the code has it: a single-section branch reports an empty result with
\* st.error, whether the fetch failed or the page held no record, and st.success
\* only for a non-empty one; the "all" branch reports nothing per section.
C11_EmptyReportedLikeFailure ==
    lastFetch.called /\ lastFetch.scrape_out = "return" =>
        /\ run.mode # "all" => (lastFetch.shown = "error" <=> lastFetch.empty)
        /\ run.mode # "all" => (lastFetch.shown = "success" <=> ~lastFetch.empty)
        /\ run.mode = "all" => lastFetch.shown = "none"

\* the courses page was fetched and held no course, in the courses branch
C11_FetchedButEmpty ==
    /\ lastFetch.called
    /\ lastFetch.exc = "none"
    /\ lastFetch.empty
    /\ lastFetch.section = "courses"
    /\ run.mode = "courses"

\* C14 as stated: a response whose body is under 1000 bytes counts as a failed
\* attempt that is retried, and is never returned as a fetched document.
C14_SmallBodyRejected ==
    lastFetch.called /\ lastFetch.small =>
        lastFetch.is_none /\ lastFetch.attempts > 1

\* C14 as the code has it: a body under 1000 bytes only draws a warning; the
\* response is parsed and returned as a fetched document after the one
\* session.get, like any other.
C14_SmallBodyReturned ==
    lastFetch.called /\ lastFetch.small =>
        /\ lastFetch.exc = "none"
        /\ ~lastFetch.is_none
        /\ lastFetch.attempts = 1
        /\ lastFetch.scrape_out = "return"

\* an overview page under 1000 bytes was fetched and its data stored
C14_SmallBodyStored ==
    /\ lastFetch.called
    /\ lastFetch.small
    /\ lastFetch.section = "overview"
    /\ "overview" \in run.ok

\* every stored value is non-empty, and a stored section stays as it is unless
\* its own scrape returns a non-empty result or Clear Data is clicked
StoredKept ==
    /\ \A k \in DOMAIN college_data' : Truthy(college_data'[k])
    /\ \A k \in DOMAIN college_data :
          \/ k \in DOMAIN college_data' /\ college_data'[k] = college_data[k]
          \/ /\ pc = "get"
             /\ cur = k
             /\ k \in DOMAIN college_data'
             /\ lastFetch'.called /\ lastFetch'.section = k /\ ~lastFetch'.empty
          \/ pc = "idle" /\ college_data' = EmptyMap

\* C17: college_data[s] is written only when the scrape of s returns a
\* non-empty result: every stored value is non-empty, and a failed or empty
\* scrape neither removes nor overwrites what an earlier scrape stored; only
\* Clear Data removes it.
C17_FailedScrapeKeepsRecord == [][StoredKept]_vars

\* a scrape of a section stored earlier came back empty, and the section is
\* still stored
C17_FailedAfterStored ==
    /\ lastFetch.called
    /\ lastFetch.empty
    /\ lastFetch.section \in run.had
    /\ lastFetch.section \in DOMAIN college_data

\* C18 as stated: the run that picks up a pending request resets the flag
\* before it ends, so whenever the app waits for the user no request is pending.
C18_FlagResetByRun == pc = "idle" => scraping = None

\* C19 as stated: a run in 'all' mode starts the four section scrapes and ends
\* with the progress bar at 1.0.
C19_FourScrapesToFullProgress ==
    run.mode = "all" /\ run.status \in {"done", "crashed"} =>
        /\ run.attempted = SectionNames
        /\ progress = ProgressDone

(***************************************************************************)
(* The sidebar on its own, over college URLs typed with trailing slashes   *)
(***************************************************************************)
MaxSlashes == 4     \* trailing slashes typed after the URL

UrlBases == {
    <<>>, DefaultUrl, <<"h", ":", "/", "/", "c">>, <<"h", ":", "/", "/", "c", "/", "u", "/", "v">>, <<"h", ":", "/", "/", "c", ".", "d", "/", "u">>, <<"H", ":", "/", "/", "C", "/", "U">>, <<"h", ":", "/", "/", "c", "/", "u", "?", "x", "=", "1">>,
    <<"h", ":", "/", "/", "c", "/", "/", "u">>, <<"c", "/", "u">>, <<"u">>, <<"h", ":">>, <<"/", "/", "c", "/", "u">> }
TrailingSlashes(n) == [i \in 1..n |-> "/"]
TypedUrls == [base : UrlBases, slashes : 0..MaxSlashes]

InitUrls ==
    /\ AppStart
    /\ doc \in TypedUrls
    /\ out = NoOut

\* a script run renders the sidebar for the typed URL, in a session without the
\* three keys
RenderSidebar ==
    /\ out.op = "none"
    /\ out' = [op |-> "sidebar",
               url |-> doc.base \o TrailingSlashes(doc.slashes),
               keys |-> Sidebar(doc.base \o TrailingSlashes(doc.slashes), EmptyMap)]
    /\ UNCHANGED <<college_url, sub_urls, delay_seconds, scraping, college_data, pc, cur,
                   progress, sinceLast, run, lastFetch, doc>>

NextUrls == RenderSidebar

SpecUrls == InitUrls /\ [][NextUrls]_vars

\* the end of the URL part and the suffix after it
Join(derived, base) ==
    SubSeq(derived, IF Len(base) = 0 THEN 1 ELSE Len(base), Len(derived))

\* C16: each sub-section URL is the college URL without its trailing slashes,
\* followed by /courses, /admission or /placement; so the same three URLs are
\* derived however many trailing slashes were typed, and none has a doubled
\* slash where the suffix is joined.
C16_SubUrlsFromStrippedUrl ==
    out.op = "sidebar" /\ out.url # <<>> =>
        /\ out.keys = [courses_url |-> doc.base \o <<"/", "c", "o", "u", "r", "s", "e", "s">>,
                       admission_url |-> doc.base \o <<"/", "a", "d", "m", "i", "s", "s", "i", "o", "n">>,
                       placement_url |-> doc.base \o <<"/", "p", "l", "a", "c", "e", "m", "e", "n", "t">>]
        /\ \A k \in DOMAIN out.keys : ~Contains(Join(out.keys[k], doc.base), <<"/", "/">>)

\* the default URL typed with two trailing slashes or more
C16_TrailingSlashesTyped ==
    out.op = "sidebar" /\ doc.base = DefaultUrl /\ doc.slashes >= 2

\* a cell of the row holds a degree keyword
CellsHaveKeyword(row) == \E j \in 1..Len(row) : HasKeyword(strip(row[j]))

\* the page holds one table and no container, and the table has two data rows,
\* the first with a keyword cell longer than 5 and the second without a keyword
OneKeywordRowOfTwo ==
    /\ doc.elements = <<>>
    /\ Len(doc.tables) = 1
    /\ Len(doc.tables[1]) = 3
    /\ \E j \in 1..Len(doc.tables[1][2]) :
          HasKeyword(strip(doc.tables[1][2][j])) /\ Len(strip(doc.tables[1][2][j])) > 5
    /\ ~CellsHaveKeyword(doc.tables[1][3])

\* C12 as stated: of a keyword row and a row without keyword, only the keyword
\* row is returned.
C12_OnlyKeywordRow ==
    out.op = "scrape_courses_page" /\ OneKeywordRowOfTwo =>
        /\ Len(out.result) = 1
        /\ \E j \in 1..Len(doc.tables[1][2]) :
              out.result[1].name = strip(doc.tables[1][2][j])

\* C12 as the code has it: the keyword row is returned, and the row without
\* keyword is returned as well, named by its first cell, exactly when that cell
\* is longer than 5 characters.
C12_RowWithoutKeywordNamedByFirstCell ==
    out.op = "scrape_courses_page" /\ OneKeywordRowOfTwo =>
        /\ \E j \in 1..Len(doc.tables[1][2]) :
              out.result[1].name = strip(doc.tables[1][2][j])
        /\ Len(out.result) = IF Len(strip(doc.tables[1][3][1])) > 5 THEN 2 ELSE 1
        /\ Len(out.result) = 2 => out.result[2].name = strip(doc.tables[1][3][1])

\* a table whose row without keyword was returned as a course
C12_RowWithoutKeywordReturned ==
    out.op = "scrape_courses_page" /\ OneKeywordRowOfTwo /\ Len(out.result) = 2

C20_FreeTextIffNothingElse ==
    out.op = "scrape_courses_page" =>
        /\ out.text = IF out.table \o out.container = <<>>
                      THEN extract_courses_from_text(get_text(doc))
                      ELSE <<>>
        /\ \A i, j \in 1..Len(out.result) :
              out.result[i].source = "text_pattern" => out.result[j].source = "text_pattern"
        /\ out.result = <<>> =>
              out.table = <<>> /\ out.container = <<>> /\ out.text = <<>>

\* a page without table rows or containers whose text names a course
C20_FreeTextYields ==
    /\ out.op = "scrape_courses_page"
    /\ out.table = <<>>
    /\ out.container = <<>>
    /\ \E i \in 1..Len(out.result) : out.result[i].source = "text_pattern"

\* C15 as stated: the returned course list never has more than a fixed number
\* of entries, the cap of the recruiter list
C15_CourseListCapped ==
    out.op = "scrape_courses_page" => Len(out.result) <= RecruiterLimit

\* C15: the course list is not capped: a page with one table of n rows and k
\* containers, each naming a course of its own, returns n + k courses, the rows
\* first and in page order
C15_OneCoursePerRowAndContainer ==
    \A n \in 0..MaxRows, k \in 0..MaxContainers :
        (out.op = "scrape_courses_page" /\ doc = LongDoc(n, k)) =>
            /\ Len(out.result) = n + k
            /\ \A i \in 1..n :
                  out.result[i].name = LongTable(n)[i + 1][1]
            /\ \A i \in 1..k :
                  out.result[n + i].source = "element"

\* a page whose table has more rows than the recruiter list has places
C15_MoreCoursesThanRecruiterLimit ==
    /\ out.op = "scrape_courses_page"
    /\ doc \in LongDocs
    /\ Len(doc.tables) = 1
    /\ Len(doc.tables[1]) - 1 > RecruiterLimit
    /\ Len(out.result) > RecruiterLimit

\* one of the four extractor calls of the dict literal raises on this text
RaisesOn(text) ==
    \/ ~extract_duration(text).ok
    \/ ~extract_fees(text).ok
    \/ ~extract_seats(text).ok
    \/ ~extract_eligibility(text).ok
CellTexts(row) == [j \in 1..Len(row) |-> strip(row[j])]
RECURSIVE NamesBeforeException(_, _)
\* the names of the named data rows from row i on, up to the first raising row
NamesBeforeException(rows, i) ==
    IF i > Len(rows) THEN <<>>
    ELSE IF Len(rows[i]) < 2 \/ RowName(CellTexts(rows[i])) = <<>>
         THEN NamesBeforeException(rows, i + 1)
    ELSE IF RaisesOn(join(<<" ">>, CellTexts(rows[i]))) THEN <<>>
    ELSE <<RowName(CellTexts(rows[i]))>> \o NamesBeforeException(rows, i + 1)
NamesOf(courses) == [k \in 1..Len(courses) |-> courses[k].name]
\* what the containers yield one by one, a raising container yielding nothing
EachAlone(elements) ==
    Flatten([e \in 1..Len(elements) |->
                IF RaisesOn(elements[e].text) THEN <<>>
                ELSE extract_course_from_element(elements[e])])

\* C21: an exception in one table row is contained in that table: every table of
\* the page, before or after the raising one, contributes the records of its
\* named rows up to its own first raising row and nothing of the rows after it;
\* a raising container yields no record and every other container yields what
\* it yields alone, in selector order.
C21_ExceptionContained ==
    out.op = "scrape_courses_page" =>
        /\ \A t \in 1..Len(doc.tables) :
              NamesOf(SelectSeq(out.table,
                                LAMBDA c : c.source = "Table " \o ToString(t)))
                 = NamesBeforeException(Tail(doc.tables[t]), 1)
        /\ out.container =
              Flatten([s \in 1..Len(course_selectors) |->
                          EachAlone(select(doc, course_selectors[s]))])

\* the first table raises in its second row after yielding its first, the
\* second table and the second container still yield records, and the first
\* container raises
C21_RaisedAndWentOn ==
    /\ out.op = "scrape_courses_page"
    /\ Len(doc.tables) = 2
    /\ doc.tables[1] = FaultyTable
    /\ Len(doc.elements) = 2
    /\ doc.elements[1] = FaultyElement
    /\ \E i \in 1..Len(out.result) :
          out.result[i].source = "Table 1" /\ out.result[i].name = FaultyTable[2][1]
    /\ \A i \in 1..Len(out.result) : out.result[i].name # FaultyTable[4][1]
    /\ \E i \in 1..Len(out.result) : out.result[i].source = "Table 2"
    /\ \E i \in 1..Len(out.result) : out.result[i].source = "element"

====
